---- MODULE Spec2Model ----
(***************************************************************************)
(* Transformation Matrix JS v1.5 (src/src/matrix.js): a mutable 2D affine  *)
(* matrix (a, b, c, d, e, f) that optionally synchronises a canvas         *)
(* context.  "All values are handled as floating point values": the        *)
(* coefficients are JavaScript Numbers, i.e. IEEE 754 binary64, and every  *)
(* + - * / of the source rounds to nearest, ties to even.  The first part  *)
(* of this module is that arithmetic; the second part is the Matrix object *)
(* and its methods; the third is the program that calls them.              *)
(*                                                                         *)
(* Naming a value.  TLC evaluates an operator's argument, and a LET        *)
(* definition, anew at each use.  The form                                 *)
(*     CHOOSE r \in { E : x \in {e} } : TRUE                               *)
(* evaluates e once, names its value x, and equals E; the operators below  *)
(* name their arguments this way.                                          *)
(***************************************************************************)
EXTENDS Integers, Sequences, FiniteSets, TLC

(***************************************************************************)
(* Natural numbers of any size: little-endian sequences of limbs below     *)
(* Base, without a most significant zero limb (zero is the empty           *)
(* sequence).  They carry the significands of the binary64 arithmetic.     *)
(***************************************************************************)
LimbBits == 15
Base == 32768

Max(i, j) == IF i >= j THEN i ELSE j
Min(i, j) == IF i <= j THEN i ELSE j

\* the limb of weight Base^(i-1)
Limb(x, i) == IF i <= Len(x) THEN x[i] ELSE 0

\* the index of the most significant nonzero limb among the first i
RECURSIVE BTop(_, _)
BTop(x0, i0) ==
    CHOOSE r \in { IF i = 0 THEN 0 ELSE IF x[i] # 0 THEN i ELSE BTop(x, i - 1)
                   : x \in {x0}, i \in {i0} } : TRUE

BTrim(x0) == CHOOSE r \in { SubSeq(x, 1, BTop(x, Len(x))) : x \in {x0} } : TRUE

RECURSIVE IntToB(_)
IntToB(n0) ==
    CHOOSE r \in { IF n = 0 THEN <<>> ELSE <<n % Base>> \o IntToB(n \div Base)
                   : n \in {n0} } : TRUE

\* the limbs from the i-th on of x + y + c * Base^(i-1)
RECURSIVE BAddAt(_, _, _, _)
BAddAt(x0, y0, i0, c0) ==
    CHOOSE r \in {
        IF i > Len(x) /\ i > Len(y) THEN (IF c = 0 THEN <<>> ELSE <<c>>)
        ELSE <<(Limb(x, i) + Limb(y, i) + c) % Base>>
             \o BAddAt(x, y, i + 1, (Limb(x, i) + Limb(y, i) + c) \div Base)
        : x \in {x0}, y \in {y0}, i \in {i0}, c \in {c0} } : TRUE

BAdd(x, y) == BAddAt(x, y, 1, 0)

\* the limbs from the i-th on of x - y - b * Base^(i-1), for x >= y
RECURSIVE BSubAt(_, _, _, _)
BSubAt(x0, y0, i0, b0) ==
    CHOOSE r \in {
        IF i > Len(x) THEN <<>>
        ELSE <<(x[i] - Limb(y, i) - b + Base) % Base>>
             \o BSubAt(x, y, i + 1, IF x[i] - Limb(y, i) - b < 0 THEN 1 ELSE 0)
        : x \in {x0}, y \in {y0}, i \in {i0}, b \in {b0} } : TRUE

\* x - y for x >= y
BSub(x, y) == BTrim(BSubAt(x, y, 1, 0))

RECURSIVE BCmpAt(_, _, _)
BCmpAt(x0, y0, i0) ==
    CHOOSE r \in {
        IF i = 0 THEN 0
        ELSE IF x[i] < y[i] THEN -1
        ELSE IF x[i] > y[i] THEN 1
        ELSE BCmpAt(x, y, i - 1)
        : x \in {x0}, y \in {y0}, i \in {i0} } : TRUE

\* -1, 0, 1 as x < y, x = y, x > y
BCmp(x0, y0) ==
    CHOOSE r \in {
        IF Len(x) < Len(y) THEN -1
        ELSE IF Len(x) > Len(y) THEN 1
        ELSE BCmpAt(x, y, Len(x))
        : x \in {x0}, y \in {y0} } : TRUE

\* the limbs from the i-th on of x * d + c * Base^(i-1), for a limb d
RECURSIVE BMulLimbAt(_, _, _, _)
BMulLimbAt(x0, d0, i0, c0) ==
    CHOOSE r \in {
        IF i > Len(x) THEN (IF c = 0 THEN <<>> ELSE <<c>>)
        ELSE <<(x[i] * d + c) % Base>>
             \o BMulLimbAt(x, d, i + 1, (x[i] * d + c) \div Base)
        : x \in {x0}, d \in {d0}, i \in {i0}, c \in {c0} } : TRUE

BMulLimb(x, d) == BTrim(BMulLimbAt(x, d, 1, 0))

\* x * Base
BShiftLimb(x0) ==
    CHOOSE r \in { IF x = <<>> THEN <<>> ELSE <<0>> \o x : x \in {x0} } : TRUE

\* x times the limbs of y from the j-th on
RECURSIVE BMulAt(_, _, _)
BMulAt(x0, y0, j0) ==
    CHOOSE r \in {
        IF j > Len(y) THEN <<>>
        ELSE BAdd(BMulLimb(x, y[j]), BShiftLimb(BMulAt(x, y, j + 1)))
        : x \in {x0}, y \in {y0}, j \in {j0} } : TRUE

BMul(x, y) == BMulAt(x, y, 1)

RECURSIVE BitLenLimb(_)
BitLenLimb(d0) ==
    CHOOSE r \in { IF d = 0 THEN 0 ELSE 1 + BitLenLimb(d \div 2) : d \in {d0} } : TRUE

BBitLen(x0) ==
    CHOOSE r \in {
        IF x = <<>> THEN 0
        ELSE LimbBits * (Len(x) - 1) + BitLenLimb(x[Len(x)])
        : x \in {x0} } : TRUE

\* x * 2^k
BShl(x0, k0) ==
    CHOOSE r \in {
        IF x = <<>> THEN <<>>
        ELSE [i \in 1..(k \div LimbBits) |-> 0]
             \o BMulLimbAt(x, 2 ^ (k % LimbBits), 1, 0)
        : x \in {x0}, k \in {k0} } : TRUE

\* x \div 2^k
BShr(x0, k0) ==
    CHOOSE r \in {
        LET q == k \div LimbBits
            s == k % LimbBits
            n == Len(x) - q
        IN  IF n <= 0 THEN <<>>
            ELSE BTrim([i \in 1..n |->
                    (x[q + i] \div (2 ^ s))
                    + (Limb(x, q + i + 1) % (2 ^ s)) * (2 ^ (LimbBits - s))])
        : x \in {x0}, k \in {k0} } : TRUE

\* bit i of x, counted from 0
BBit(x0, i0) ==
    CHOOSE r \in {
        (Limb(x, i \div LimbBits + 1) \div (2 ^ (i % LimbBits))) % 2
        : x \in {x0}, i \in {i0} } : TRUE

RECURSIVE TrailingZerosLimb(_)
TrailingZerosLimb(d0) ==
    CHOOSE r \in { IF d % 2 = 1 THEN 0 ELSE 1 + TrailingZerosLimb(d \div 2)
                   : d \in {d0} } : TRUE

\* the number of trailing zero bits of x > 0, from limb i on
RECURSIVE BTrailingZerosAt(_, _)
BTrailingZerosAt(x0, i0) ==
    CHOOSE r \in {
        IF x[i] = 0 THEN LimbBits + BTrailingZerosAt(x, i + 1)
        ELSE TrailingZerosLimb(x[i])
        : x \in {x0}, i \in {i0} } : TRUE

BTrailingZeros(x) == BTrailingZerosAt(x, 1)

\* long division, one bit of n at a time: with quotient qr.q and remainder
\* qr.r of the bits of n above bit i, those of the bits down to bit i
BDivStep(n0, d0, qr0, i0) ==
    CHOOSE r \in {
        IF BCmp(r2, d) >= 0
        THEN [q |-> BMulLimbAt(qr.q, 2, 1, 1), r |-> BSub(r2, d)]
        ELSE [q |-> BMulLimbAt(qr.q, 2, 1, 0), r |-> r2]
        : r2 \in {BMulLimbAt(qr0.r, 2, 1, BBit(n0, i0))},
          d \in {d0}, qr \in {qr0} } : TRUE

\* the steps for bits hi down to lo, split in halves
RECURSIVE BDivRange(_, _, _, _, _)
BDivRange(n0, d0, qr0, hi0, lo0) ==
    CHOOSE r \in {
        IF hi < lo THEN qr
        ELSE IF hi = lo THEN BDivStep(n, d, qr, hi)
        ELSE BDivRange(n, d, BDivRange(n, d, qr, hi, (hi + lo) \div 2 + 1),
                       (hi + lo) \div 2, lo)
        : n \in {n0}, d \in {d0}, qr \in {qr0}, hi \in {hi0}, lo \in {lo0} } : TRUE

\* quotient q and remainder r of n by d > 0
BDivMod(n, d) == BDivRange(n, d, [q |-> <<>>, r |-> <<>>], BBitLen(n) - 1, 0)

(***************************************************************************)
(* IEEE 754 binary64.  A Number is NaN, an infinity, or the finite value   *)
(* (-1)^s * m * 2^e with m odd (or zero, with e = 0), so that equal values *)
(* have equal representations and -0 differs from +0 only in s.           *)
(***************************************************************************)
PrecBits == 53
MinExp == -1074
MaxBits == 1024
Prec32 == 24
MinExp32 == -149
MaxBits32 == 128
\* an addend this many bits below the other's last bit acts as a sticky bit
GuardBits == 64

NaN == [k |-> "nan", s |-> 0, m |-> <<>>, e |-> 0]
Inf(s) == [k |-> "inf", s |-> s, m |-> <<>>, e |-> 0]
Zero(s) == [k |-> "fin", s |-> s, m |-> <<>>, e |-> 0]

\* the finite value (-1)^s * m * 2^e, for m with tz trailing zero bits, in
\* its representation with m odd
FOdd(s, m, e, tz) == [k |-> "fin", s |-> s, m |-> BShr(m, tz), e |-> e + tz]

FNorm(s0, m0, e0) ==
    CHOOSE r \in {
        IF m = <<>> THEN Zero(s) ELSE FOdd(s, m, e, BTrailingZeros(m))
        : s \in {s0}, m \in {m0}, e \in {e0} } : TRUE

\* m \div 2^sh rounded to nearest, ties to even, on the sh bits shifted out
RoundShift(m0, sh0) ==
    CHOOSE r \in {
        IF sh <= 0 THEN m
        ELSE IF BBit(m, sh - 1) = 1
                /\ (BTrailingZeros(m) < sh - 1 \/ BBit(q, 0) = 1)
        THEN BAdd(q, <<1>>)
        ELSE q
        : m \in {m0}, sh \in {sh0}, q \in {BShr(m0, Max(0, sh0))} } : TRUE

\* the value m * 2^e in a format whose values are below 2^maxbits
Bounded(s0, m0, e0, maxbits0) ==
    CHOOSE r \in {
        IF BBitLen(m) + e > maxbits THEN Inf(s) ELSE FNorm(s, m, e)
        : s \in {s0}, m \in {m0}, e \in {e0}, maxbits \in {maxbits0} } : TRUE

\* (-1)^s * m * 2^e rounded to nearest, ties to even, in a format of prec
\* significand bits, least exponent emin and values below 2^maxbits
RoundTo(s0, m0, e0, prec, emin, maxbits) ==
    CHOOSE r \in {
        IF m = <<>> THEN Zero(s)
        ELSE Bounded(s, RoundShift(m, Max(BBitLen(m) - prec, emin - e)),
                     e + Max(0, Max(BBitLen(m) - prec, emin - e)), maxbits)
        : s \in {s0}, m \in {m0}, e \in {e0} } : TRUE

\* an unrounded finite value
Exact(s, m, e) == [k |-> "exact", s |-> s, m |-> m, e |-> e]

\* the Number of an arithmetic result: an exact value rounded to binary64,
\* NaN and the infinities as they are
Round(v0) ==
    CHOOSE r \in {
        IF v.k = "exact" THEN RoundTo(v.s, v.m, v.e, PrecBits, MinExp, MaxBits)
        ELSE v
        : v \in {v0} } : TRUE

\* the Number of a (small) integer literal
Num(n) ==
    IF n = 0 THEN Zero(0)
    ELSE [k |-> "fin", s |-> IF n < 0 THEN 1 ELSE 0,
          m |-> <<(IF n < 0 THEN -n ELSE n)
                  \div 2 ^ TrailingZerosLimb(IF n < 0 THEN -n ELSE n)>>,
          e |-> TrailingZerosLimb(IF n < 0 THEN -n ELSE n)]

IsZero(x) == x.k = "fin" /\ x.m = <<>>
Xor(s, t) == (s + t) % 2

\* unary minus
FNeg(x0) ==
    CHOOSE r \in { IF x.k = "nan" THEN x ELSE [x EXCEPT !.s = 1 - x.s]
                   : x \in {x0} } : TRUE

\* hi + lo exactly, for finite nonzero hi and lo with hi.e >= lo.e, on the
\* significands mh of hi and ml of lo at the exponent lo.e
AddSignificands(hi, lo, mh0, ml0) ==
    CHOOSE r \in {
        IF hi.s = lo.s THEN Exact(hi.s, BAdd(mh, ml), lo.e)
        ELSE Exact(IF c = 0 THEN 0 ELSE IF c > 0 THEN hi.s ELSE lo.s,
                   BSub(IF c >= 0 THEN mh ELSE ml, IF c >= 0 THEN ml ELSE mh),
                   lo.e)
        : mh \in {mh0}, ml \in {ml0}, c \in {BCmp(mh0, ml0)} } : TRUE

\* hi + lo exactly, for finite nonzero hi and lo with hi.e >= lo.e.  A lo
\* that ends GuardBits or more below the last bit of hi only decides the
\* rounding, and counts as one unit GuardBits below that bit.
AddOrdered(hi0, lo0) ==
    CHOOSE r \in {
        AddSignificands(hi, lo, BShl(hi.m, hi.e - lo.e), lo.m)
        : hi \in {hi0},
          lo \in {IF hi0.e - (lo0.e + BBitLen(lo0.m)) >= GuardBits
                  THEN [lo0 EXCEPT !.m = <<1>>, !.e = hi0.e - GuardBits]
                  ELSE lo0} } : TRUE

\* x + y before rounding
ExactAdd(x0, y0) ==
    CHOOSE r \in {
        IF x.k = "nan" \/ y.k = "nan" THEN NaN
        ELSE IF x.k = "inf"
             THEN (IF y.k = "inf" /\ y.s # x.s THEN NaN ELSE x)
        ELSE IF y.k = "inf" THEN y
        ELSE IF IsZero(x) /\ IsZero(y)
             THEN Zero(IF x.s = 1 /\ y.s = 1 THEN 1 ELSE 0)
        ELSE IF IsZero(x) THEN y
        ELSE IF IsZero(y) THEN x
        ELSE AddOrdered(IF x.e >= y.e THEN x ELSE y, IF x.e >= y.e THEN y ELSE x)
        : x \in {x0}, y \in {y0} } : TRUE

\* x + y
FAdd(x, y) == Round(ExactAdd(x, y))

\* x - y
FSub(x, y) == Round(ExactAdd(x, FNeg(y)))

\* x * y before rounding
ExactMul(x0, y0) ==
    CHOOSE r \in {
        IF x.k = "nan" \/ y.k = "nan" THEN NaN
        ELSE IF x.k = "inf" \/ y.k = "inf"
             THEN (IF IsZero(x) \/ IsZero(y) THEN NaN ELSE Inf(Xor(x.s, y.s)))
        ELSE IF IsZero(x) \/ IsZero(y) THEN Zero(Xor(x.s, y.s))
        ELSE Exact(Xor(x.s, y.s), BMul(x.m, y.m), x.e + y.e)
        : x \in {x0}, y \in {y0} } : TRUE

\* x * y
FMul(x, y) == Round(ExactMul(x, y))

\* the quotient qr.q of mx * 2^sh by my with one more bit, set when the
\* remainder qr.r is not zero: it rounds as the exact quotient does
Sticky(s, qr0, e) ==
    CHOOSE r \in {
        Exact(s, BMulLimbAt(qr.q, 2, 1, IF qr.r = <<>> THEN 0 ELSE 1), e - 1)
        : qr \in {qr0} } : TRUE

\* (-1)^s * (mx * 2^ex) / (my * 2^ey) for mx, my > 0, to PrecBits + 3 bits
\* or more and the sticky bit
ExactQuot(s, mx0, ex, my0, ey) ==
    CHOOSE r \in {
        Sticky(s, BDivMod(BShl(mx, sh), my), ex - ey - sh)
        : mx \in {mx0}, my \in {my0},
          sh \in {Max(0, PrecBits + 3 + BBitLen(my0) - BBitLen(mx0))} } : TRUE

\* x / y before rounding
ExactDiv(x0, y0) ==
    CHOOSE r \in {
        IF x.k = "nan" \/ y.k = "nan" THEN NaN
        ELSE IF x.k = "inf"
             THEN (IF y.k = "inf" THEN NaN ELSE Inf(Xor(x.s, y.s)))
        ELSE IF y.k = "inf" THEN Zero(Xor(x.s, y.s))
        ELSE IF IsZero(y)
             THEN (IF IsZero(x) THEN NaN ELSE Inf(Xor(x.s, y.s)))
        ELSE IF IsZero(x) THEN Zero(Xor(x.s, y.s))
        ELSE ExactQuot(Xor(x.s, y.s), x.m, x.e, y.m, y.e)
        : x \in {x0}, y \in {y0} } : TRUE

\* x / y
FDiv(x, y) == Round(ExactDiv(x, y))

\* Math.abs
FAbs(x0) ==
    CHOOSE r \in { IF x.k = "nan" THEN x ELSE [x EXCEPT !.s = 0]
                   : x \in {x0} } : TRUE

\* x < y
FLt(x0, y0) ==
    CHOOSE r \in {
        IF x.k = "nan" \/ y.k = "nan" THEN FALSE
        ELSE IF x.k = "inf" /\ y.k = "inf" THEN x.s = 1 /\ y.s = 0
        ELSE ~IsZero(d) /\ d.s = 1
        : x \in {x0}, y \in {y0}, d \in {FSub(x0, y0)} } : TRUE

\* a Number stored into a Float32Array element
ToFloat32(x0) ==
    CHOOSE r \in {
        IF x.k # "fin" THEN x
        ELSE RoundTo(x.s, x.m, x.e, Prec32, MinExp32, MaxBits32)
        : x \in {x0} } : TRUE

\* 10^p, by halving p
RECURSIVE BPow10(_)
BPow10(p0) ==
    CHOOSE r \in {
        IF p < 5 THEN IntToB(10 ^ p)
        ELSE BMul(BPow10(p \div 2), BPow10(p - p \div 2))
        : p \in {p0} } : TRUE

\* the integer whose decimal digits are ds[lo..hi], by halving the range
RECURSIVE BDigits(_, _, _)
BDigits(ds0, lo0, hi0) ==
    CHOOSE r \in {
        IF lo = hi THEN IntToB(ds[lo])
        ELSE BAdd(BMul(BDigits(ds, lo, (lo + hi) \div 2),
                       BPow10(hi - (lo + hi) \div 2)),
                  BDigits(ds, (lo + hi) \div 2 + 1, hi))
        : ds \in {ds0}, lo \in {lo0}, hi \in {hi0} } : TRUE

\* the Number a decimal literal denotes: the digits ds as an integer over
\* 10^-p (p <= 0), rounded once (ECMAScript's numeric literal conversion)
Dec(ds, p) == Round(ExactQuot(0, BDigits(ds, 1, Len(ds)), 0, BPow10(-p), 0))

(***************************************************************************)
(* JavaScript values other than Numbers.  undefined and the point objects  *)
(* {x, y} carry a tag k as the Numbers do, so that typeof can tell them    *)
(* apart.  References (surfaces, null, a missing argument) are strings.    *)
(***************************************************************************)
Undefined == [k |-> "undefined", s |-> 0, m |-> <<>>, e |-> 0]
Point(x, y) == [k |-> "obj", x |-> x, y |-> y]
Null == "null"
NoArg == "undefined"
Surfaces == {"s1", "s2"}

TypeOf(v) ==
    IF v.k \in {"fin", "inf", "nan"} THEN "number"
    ELSE IF v.k = "undefined" THEN "undefined"
    ELSE "object"

\* ToNumber: undefined and a plain object convert to NaN
ToNumber(v) == IF TypeOf(v) = "number" THEN v ELSE NaN

\* ToBoolean
Truthy(v) ==
    IF TypeOf(v) = "number" THEN ~(v.k = "nan" \/ IsZero(v))
    ELSE TypeOf(v) = "object"

\* points[i], i counted from 0
Elem(points, i) == IF i < Len(points) THEN points[i + 1] ELSE Undefined

\* p.x and p.y of an array element
PropX(p) == IF p.k = "obj" THEN p.x ELSE Undefined
PropY(p) == IF p.k = "obj" THEN p.y ELSE Undefined

\* a Number given by its bits: m * 2^e, m odd in limbs
Double(m, e) == [k |-> "fin", s |-> 0, m |-> m, e |-> e]

\* Math.PI / 2 = 1.5707963267948966 = 0x3FF921FB54442D18
PiHalf == Double(<<1443, 21777, 4349, 25>>, -49)

\* Math.cos and Math.sin, correctly rounded, at the angles the model uses:
\* cos(PiHalf) = 6.123233995736766e-17 = 0x3C91A62633145C07
TrigTable ==
    { [x |-> Num(0), cos |-> Num(1), sin |-> Num(0)],
      [x |-> PiHalf, cos |-> Double(<<23559, 26152, 6296, 141>>, -106),
                     sin |-> Num(1)] }
MathCos(x) == (CHOOSE t \in TrigTable : t.x = x).cos
MathSin(x) == (CHOOSE t \in TrigTable : t.x = x).sin

(***************************************************************************)
(* The canvas context: the model keeps, per surface, the arguments of the  *)
(* last setTransform call (<<>> before the first) and how many there were. *)
(***************************************************************************)
ctxSetTransform(surf, context, a, b, c, d, e, f) ==
    [surf EXCEPT ![context] = [t |-> <<a, b, c, d, e, f>>, n |-> @.n + 1]]

(***************************************************************************)
(* Matrix.  A world w is the objects held by the program's variables       *)
(* (w.mats) and the surfaces (w.surf); a method takes the world and the    *)
(* variable `this` names and gives the world after the call.               *)
(***************************************************************************)
Fields == {"a", "b", "c", "d", "e", "f"}

\* function Matrix(context): the new object and the surfaces afterwards
Matrix(surf, context) ==
    [obj  |-> [a |-> Num(1), b |-> Num(0), c |-> Num(0), d |-> Num(1),
               e |-> Num(0), f |-> Num(0),
               context |-> IF context \in Surfaces THEN context ELSE Null],
     surf |-> IF context \in Surfaces
              THEN ctxSetTransform(surf, context,
                                   Num(1), Num(0), Num(0), Num(1), Num(0), Num(0))
              ELSE surf]

\* a faulty _setCtx: b and c change places in the call of setTransform
_setCtxSwapped(w0, this) ==
    CHOOSE r \in {
        IF o.context \in Surfaces
        THEN [w EXCEPT !.surf =
                 ctxSetTransform(@, o.context, o.a, o.c, o.b, o.d, o.e, o.f)]
        ELSE w
        : w \in {w0}, o \in {w0.mats[this]} } : TRUE

_setCtx(w0, this) ==
    CHOOSE r \in {
        IF o.context \in Surfaces
        THEN [w EXCEPT !.surf =
                 ctxSetTransform(@, o.context, o.a, o.b, o.c, o.d, o.e, o.f)]
        ELSE w
        : w \in {w0}, o \in {w0.mats[this]} } : TRUE

\* the expression x * y + z * u of operands t = <<x, y, z, u>>, and
\* x * y + z * u + v of operands t = <<x, y, z, u, v>>
SumOfProducts(t0) ==
    CHOOSE r \in {
        IF Len(t) = 5 THEN FAdd(s, t[5]) ELSE s
        : t \in {t0}, s \in {FAdd(FMul(t0[1], t0[2]), FMul(t0[3], t0[4]))} } : TRUE

\* a faulty transform: no a1..f1, each right-hand side reads this.a..this.f
\* as the assignments before it left them
transformInPlace(w0, this, a2, b2, c2, d2, e2, f2) ==
    CHOOSE r \in {
        LET o1 == [o  EXCEPT !.a = SumOfProducts(<<o.a, a2, o.c, b2>>)]
            o2 == [o1 EXCEPT !.b = SumOfProducts(<<o1.b, a2, o1.d, b2>>)]
            o3 == [o2 EXCEPT !.c = SumOfProducts(<<o2.a, c2, o2.c, d2>>)]
            o4 == [o3 EXCEPT !.d = SumOfProducts(<<o3.b, c2, o3.d, d2>>)]
            o5 == [o4 EXCEPT !.e = SumOfProducts(<<o4.a, e2, o4.c, f2, o4.e>>)]
            o6 == [o5 EXCEPT !.f = SumOfProducts(<<o5.b, e2, o5.d, f2, o5.f>>)]
        IN  _setCtx([w EXCEPT !.mats[this] = o6], this)
        : w \in {w0}, o \in {w0.mats[this]} } : TRUE

\* transform: a1..f1 are read before the first assignment; rhs gives the
\* operands of the right-hand side assigned to each coefficient
transform(w0, this, a2, b2, c2, d2, e2, f2) ==
    CHOOSE r \in {
        LET a1 == o.a
            b1 == o.b
            c1 == o.c
            d1 == o.d
            e1 == o.e
            f1 == o.f
            rhs == [a |-> <<a1, a2, c1, b2>>,
                    b |-> <<b1, a2, d1, b2>>,
                    c |-> <<a1, c2, c1, d2>>,
                    d |-> <<b1, c2, d1, d2>>,
                    e |-> <<a1, e2, c1, f2, e1>>,
                    f |-> <<b1, e2, d1, f2, f1>>]
        IN  _setCtx([w EXCEPT !.mats[this] =
                        [k \in DOMAIN o |->
                            IF k \in Fields THEN SumOfProducts(rhs[k]) ELSE o[k]]],
                    this)
        : w \in {w0}, o \in {w0.mats[this]} } : TRUE

flipX(w, this) == transform(w, this, Num(-1), Num(0), Num(0), Num(1), Num(0), Num(0))

flipY(w, this) == transform(w, this, Num(1), Num(0), Num(0), Num(-1), Num(0), Num(0))

\* a faulty reset: e and f keep their values
resetPartial(w, this) ==
    _setCtx([w EXCEPT !.mats[this] =
                [@ EXCEPT !.d = Num(1), !.a = Num(1), !.c = Num(0), !.b = Num(0)]],
            this)

reset(w, this) ==
    _setCtx([w EXCEPT !.mats[this] =
                [@ EXCEPT !.d = Num(1), !.a = Num(1), !.f = Num(0), !.e = Num(0),
                          !.c = Num(0), !.b = Num(0)]],
            this)

rotate(w, this, angle) ==
    CHOOSE r \in {
        transform(w, this, cos, sin, FNeg(sin), cos, Num(0), Num(0))
        : cos \in {MathCos(angle)}, sin \in {MathSin(angle)} } : TRUE

\* 0.017453292519943295
DegToRad == Dec(<<1,7,4,5,3,2,9,2,5,1,9,9,4,3,2,9,5>>, -18)

rotateDeg(w, this, angle) == rotate(w, this, FMul(angle, DegToRad))

scale(w, this, sx, sy) == transform(w, this, sx, Num(0), Num(0), sy, Num(0), Num(0))

scaleX(w, this, sx) == transform(w, this, sx, Num(0), Num(0), Num(1), Num(0), Num(0))

scaleY(w, this, sy) == transform(w, this, Num(1), Num(0), Num(0), sy, Num(0), Num(0))

skew(w, this, sx, sy) == transform(w, this, Num(1), sy, sx, Num(1), Num(0), Num(0))

skewX(w, this, sx) == transform(w, this, Num(1), Num(0), sx, Num(1), Num(0), Num(0))

skewY(w, this, sy) == transform(w, this, Num(1), sy, Num(0), Num(1), Num(0), Num(0))

setTransform(w, this, a, b, c, d, e, f) ==
    _setCtx([w EXCEPT !.mats[this] =
                [@ EXCEPT !.a = a, !.b = b, !.c = c, !.d = d, !.e = e, !.f = f]],
            this)

\* a faulty translate: tx and ty change places
translateSwapped(w, this, tx, ty) ==
    transform(w, this, Num(1), Num(0), Num(0), Num(1), ty, tx)

translate(w, this, tx, ty) == transform(w, this, Num(1), Num(0), Num(0), Num(1), tx, ty)

translateX(w, this, tx) == transform(w, this, Num(1), Num(0), Num(0), Num(1), tx, Num(0))

translateY(w, this, ty) == transform(w, this, Num(1), Num(0), Num(0), Num(1), Num(0), ty)

\* the expression x * y - z * u
DiffOfProducts(x, y, z, u) == FSub(FMul(x, y), FMul(z, u))

\* a faulty getInverse: m.f = (a * f - b * e) / dt, the sign forgotten
getInverseNoSign(w0, this) ==
    CHOOSE r \in {
        LET a == o.a
            b == o.b
            c == o.c
            d == o.d
            e == o.e
            f == o.f
            num == [a |-> d,
                    b |-> FNeg(b),
                    c |-> FNeg(c),
                    d |-> a,
                    e |-> DiffOfProducts(c, f, d, e),
                    f |-> DiffOfProducts(a, f, b, e)]
        IN  [obj  |-> [k \in DOMAIN m.obj |->
                          IF k \in Fields THEN FDiv(num[k], dt) ELSE m.obj[k]],
             surf |-> m.surf]
        : o \in {w0.mats[this]}, m \in {Matrix(w0.surf, NoArg)},
          dt \in {DiffOfProducts(w0.mats[this].a, w0.mats[this].d,
                                 w0.mats[this].b, w0.mats[this].c)} } : TRUE

\* a faulty getInverse: m = new Matrix(this.context)
getInverseWithContext(w0, this) ==
    CHOOSE r \in {
        LET a == o.a
            b == o.b
            c == o.c
            d == o.d
            e == o.e
            f == o.f
            num == [a |-> d,
                    b |-> FNeg(b),
                    c |-> FNeg(c),
                    d |-> a,
                    e |-> DiffOfProducts(c, f, d, e),
                    f |-> FNeg(DiffOfProducts(a, f, b, e))]
        IN  [obj  |-> [k \in DOMAIN m.obj |->
                          IF k \in Fields THEN FDiv(num[k], dt) ELSE m.obj[k]],
             surf |-> m.surf]
        : o \in {w0.mats[this]}, m \in {Matrix(w0.surf, w0.mats[this].context)},
          dt \in {DiffOfProducts(w0.mats[this].a, w0.mats[this].d,
                                 w0.mats[this].b, w0.mats[this].c)} } : TRUE

\* getInverse: the new object and the surfaces afterwards; num gives the
\* numerator of the quotient by dt assigned to each coefficient of m
getInverse(w0, this) ==
    CHOOSE r \in {
        LET a == o.a
            b == o.b
            c == o.c
            d == o.d
            e == o.e
            f == o.f
            num == [a |-> d,
                    b |-> FNeg(b),
                    c |-> FNeg(c),
                    d |-> a,
                    e |-> DiffOfProducts(c, f, d, e),
                    f |-> FNeg(DiffOfProducts(a, f, b, e))]
        IN  [obj  |-> [k \in DOMAIN m.obj |->
                          IF k \in Fields THEN FDiv(num[k], dt) ELSE m.obj[k]],
             surf |-> m.surf]
        : o \in {w0.mats[this]}, m \in {Matrix(w0.surf, NoArg)},
          dt \in {DiffOfProducts(w0.mats[this].a, w0.mats[this].d,
                                 w0.mats[this].b, w0.mats[this].c)} } : TRUE

\* a faulty interpolate: each coefficient is m2.k + (this.k - m2.k) * t
interpolateFromEnd(w0, this, m2, t0) ==
    CHOOSE r \in {
        [obj  |-> [k \in DOMAIN m.obj |->
                      IF k \in Fields THEN FAdd(p[k], FMul(FSub(o[k], p[k]), t))
                      ELSE m.obj[k]],
         surf |-> m.surf]
        : o \in {w0.mats[this]}, p \in {w0.mats[m2]}, t \in {t0},
          m \in {Matrix(w0.surf, NoArg)} } : TRUE

\* interpolate: the new object and the surfaces afterwards; each coefficient
\* k of m is this.k + (m2.k - this.k) * t
interpolate(w0, this, m2, t0) ==
    CHOOSE r \in {
        [obj  |-> [k \in DOMAIN m.obj |->
                      IF k \in Fields THEN FAdd(o[k], FMul(FSub(p[k], o[k]), t))
                      ELSE m.obj[k]],
         surf |-> m.surf]
        : o \in {w0.mats[this]}, p \in {w0.mats[m2]}, t \in {t0},
          m \in {Matrix(w0.surf, NoArg)} } : TRUE

\* applyToPoint: x * a + y * c + e and x * b + y * d + f
applyToPoint(w, this, x0, y0) ==
    CHOOSE r \in {
        LET rhs == [x |-> <<x, o.a, y, o.c, o.e>>,
                    y |-> <<x, o.b, y, o.d, o.f>>]
            v == [k \in DOMAIN rhs |-> SumOfProducts(rhs[k])]
        IN  Point(v.x, v.y)
        : o \in {w.mats[this]}, x \in {ToNumber(x0)}, y \in {ToNumber(y0)} } : TRUE

\* a faulty loop over a flat array: y is pushed before x
RECURSIVE applyToArrayPairsSwapped(_, _, _, _, _)
applyToArrayPairsSwapped(w0, this, points0, i0, mxPoints0) ==
    CHOOSE r \in {
        IF i < Len(points)
        THEN applyToArrayPairsSwapped(w, this, points, i + 2,
                                      mxPoints \o <<p.y, p.x>>)
        ELSE mxPoints
        : w \in {w0}, points \in {points0}, i \in {i0}, mxPoints \in {mxPoints0},
          p \in {applyToPoint(w0, this, Elem(points0, i0), Elem(points0, i0 + 1))}
        } : TRUE

\* the while loop of applyToArray over a flat array, from index i on
RECURSIVE applyToArrayPairs(_, _, _, _, _)
applyToArrayPairs(w0, this, points0, i0, mxPoints0) ==
    CHOOSE r \in {
        IF i < Len(points)
        THEN applyToArrayPairs(w, this, points, i + 2, mxPoints \o <<p.x, p.y>>)
        ELSE mxPoints
        : w \in {w0}, points \in {points0}, i \in {i0}, mxPoints \in {mxPoints0},
          p \in {applyToPoint(w0, this, Elem(points0, i0), Elem(points0, i0 + 1))}
        } : TRUE

\* the for loop of applyToArray over point objects, from index i on
RECURSIVE applyToArrayObjects(_, _, _, _, _)
applyToArrayObjects(w0, this, points0, i0, mxPoints0) ==
    CHOOSE r \in {
        IF Truthy(p)
        THEN applyToArrayObjects(w, this, points, i + 1,
                 Append(mxPoints, applyToPoint(w, this, PropX(p), PropY(p))))
        ELSE mxPoints
        : w \in {w0}, points \in {points0}, i \in {i0}, mxPoints \in {mxPoints0},
          p \in {Elem(points0, i0)} } : TRUE

applyToArray(w, this, points) ==
    IF TypeOf(Elem(points, 0)) = "number"
    THEN applyToArrayPairs(w, this, points, 0, <<>>)
    ELSE applyToArrayObjects(w, this, points, 0, <<>>)

\* the while loop of applyToTypedArray from index i on; a store past the
\* end of the Float32Array is dropped
RECURSIVE applyToTypedArrayLoop(_, _, _, _, _)
applyToTypedArrayLoop(w0, this, points0, i0, mxPoints0) ==
    CHOOSE r \in {
        IF i < Len(points)
        THEN applyToTypedArrayLoop(w, this, points, i + 2,
                 [k \in 1..Len(points) |->
                     IF k = i + 1 THEN ToFloat32(p.x)
                     ELSE IF k = i + 2 THEN ToFloat32(p.y)
                     ELSE mxPoints[k]])
        ELSE mxPoints
        : w \in {w0}, points \in {points0}, i \in {i0}, mxPoints \in {mxPoints0},
          p \in {applyToPoint(w0, this, Elem(points0, i0), Elem(points0, i0 + 1))}
        } : TRUE

applyToTypedArray(w, this, points) ==
    applyToTypedArrayLoop(w, this, points, 0, [i \in 1..Len(points) |-> Zero(0)])

\* a faulty applyToContext: the surface written is the attached one
applyToContextAttached(w0, this, context) == _setCtx(w0, this)

applyToContext(w0, this, context) ==
    CHOOSE r \in {
        [w EXCEPT !.surf = ctxSetTransform(@, context, o.a, o.b, o.c, o.d, o.e, o.f)]
        : w \in {w0}, o \in {w0.mats[this]} } : TRUE

\* 1e-14
Epsilon == Dec(<<1>>, -14)

_isEqual(f1, f2) == FLt(FAbs(FSub(f1, f2)), Epsilon)

\* the second operands of the comparisons of isIdentity
Identity ==
    [a |-> Num(1), b |-> Num(0), c |-> Num(0), d |-> Num(1), e |-> Num(0),
     f |-> Num(0)]

isIdentity(w, this) ==
    CHOOSE r \in {
        \A k \in Fields : _isEqual(o[k], Identity[k])
        : o \in {w.mats[this]} } : TRUE

isEqual(w, this, m) ==
    CHOOSE r \in {
        \A k \in Fields : _isEqual(o[k], p[k])
        : o \in {w.mats[this]}, p \in {w.mats[m]} } : TRUE

\* a faulty clone: new Matrix(this.context)
cloneWithContext(w, this) ==
    CHOOSE r \in {
        [obj  |-> [k \in DOMAIN m.obj |-> IF k \in Fields THEN o[k] ELSE m.obj[k]],
         surf |-> m.surf]
        : o \in {w.mats[this]}, m \in {Matrix(w.surf, w.mats[this].context)} } : TRUE

\* clone (documented in the readme of the later version): a new object with
\* the same coefficients and no context
clone(w, this) ==
    CHOOSE r \in {
        [obj  |-> [k \in DOMAIN m.obj |-> IF k \in Fields THEN o[k] ELSE m.obj[k]],
         surf |-> m.surf]
        : o \in {w.mats[this]}, m \in {Matrix(w.surf, NoArg)} } : TRUE

(***************************************************************************)
(* The program: a variable m holding new Matrix(s1), and variables i, p    *)
(* and c holding the instance the last getInverse, interpolate and clone   *)
(* returned.  Each step is one method call on one of them; log keeps the   *)
(* calls made, each with the world it was made in and what it returned.    *)
(***************************************************************************)
VARIABLES
    mats,   \* variable name -> the Matrix object it holds
    surf,   \* surface -> last setTransform arguments, number of calls
    log     \* the calls so far: [op, this, args, w, ret]

vars == <<mats, surf, log>>

\* the most calls that change an object or a surface; one call that only
\* reads may follow them
MaxCalls == 2

\* argument values
\* 0.1 = 0x3FB999999999999A
Tenth == Double(<<19661, 6553, 13107, 102>>, -55)
Scalars == {Num(2), Tenth}
Pairs == {<<Num(10), Num(0)>>, <<Tenth, Num(3)>>}
Angles == {PiHalf}
Degrees == {Num(90)}
Sextuples ==
    { <<Num(2), Num(0), Num(0), Num(2), Num(1000), Num(1)>>,
      <<Num(1), Num(5), Num(2), Num(7), Num(7), Num(1)>>,
      <<Num(1), Num(2), Num(2), Num(4), Tenth, Num(0)>> }
Coords == {<<Num(1), Num(0)>>, <<Num(5), Tenth>>}
Fractions == {Num(0), Num(1), Num(2), Num(-1)}
FlatArrays ==
    { <<>>, <<Num(1), Num(2)>>, <<Num(1), Num(2), Num(3), Num(4)>>,
      <<Num(0), Num(2), Num(3)>> }
ObjectArrays ==
    { <<Point(Num(1), Num(2))>>,
      <<Point(Num(1), Num(2)), Point(Num(0), Tenth)>> }

W == [mats |-> mats, surf |-> surf]

Vars == DOMAIN mats

\* the methods that only read, and the calls of l to the others
Reads == {"applyToPoint", "applyToArray", "applyToTypedArray", "isIdentity",
          "isEqual"}
Changes(l) == Cardinality({k \in DOMAIN l : l[k].op \notin Reads})

\* the runs explored: up to MaxCalls calls that change an object or a
\* surface, then one call that only reads
Allowed(this, op) ==
    /\ this \in Vars
    /\ Len(log) = Changes(log)
    /\ op \notin Reads => Changes(log) < MaxCalls

\* the common end of every step: the world after the call, what it returned
Return(op, this, args, w0, r) ==
    \E w \in {w0} :
        /\ mats' = w.mats
        /\ surf' = w.surf
        /\ log' = Append(log, [op |-> op, this |-> this, args |-> args,
                               w |-> W, ret |-> r])

\* a call that returns a new instance n, which the program keeps in var
ReturnNew(op, this, args, n0, var) ==
    \E n \in {n0} :
        Return(op, this, args,
               [mats |-> [v \in Vars \cup {var} |->
                             IF v = var THEN n.obj ELSE mats[v]],
                surf |-> n.surf],
               var)

NoSurface == [s \in Surfaces |-> [t |-> <<>>, n |-> 0]]

Init ==
    /\ mats = [v \in {"m"} |-> Matrix(NoSurface, "s1").obj]
    /\ surf = Matrix(NoSurface, "s1").surf
    /\ log = <<>>

FlipX(this) ==
    /\ Allowed(this, "flipX")
    /\ Return("flipX", this, <<>>, flipX(W, this), this)

FlipY(this) ==
    /\ Allowed(this, "flipY")
    /\ Return("flipY", this, <<>>, flipY(W, this), this)

Reset(this) ==
    /\ Allowed(this, "reset")
    /\ Return("reset", this, <<>>, reset(W, this), this)

Rotate(this) ==
    /\ Allowed(this, "rotate")
    /\ \E angle \in Angles :
        Return("rotate", this, <<angle>>, rotate(W, this, angle), this)

RotateDeg(this) ==
    /\ Allowed(this, "rotateDeg")
    /\ \E angle \in Degrees :
        Return("rotateDeg", this, <<angle>>, rotateDeg(W, this, angle), this)

Scale(this) ==
    /\ Allowed(this, "scale")
    /\ \E p \in Pairs :
        Return("scale", this, p, scale(W, this, p[1], p[2]), this)

ScaleX(this) ==
    /\ Allowed(this, "scaleX")
    /\ \E sx \in Scalars :
        Return("scaleX", this, <<sx>>, scaleX(W, this, sx), this)

ScaleY(this) ==
    /\ Allowed(this, "scaleY")
    /\ \E sy \in Scalars :
        Return("scaleY", this, <<sy>>, scaleY(W, this, sy), this)

Skew(this) ==
    /\ Allowed(this, "skew")
    /\ \E p \in Pairs :
        Return("skew", this, p, skew(W, this, p[1], p[2]), this)

SkewX(this) ==
    /\ Allowed(this, "skewX")
    /\ \E sx \in Scalars :
        Return("skewX", this, <<sx>>, skewX(W, this, sx), this)

SkewY(this) ==
    /\ Allowed(this, "skewY")
    /\ \E sy \in Scalars :
        Return("skewY", this, <<sy>>, skewY(W, this, sy), this)

SetTransform(this) ==
    /\ Allowed(this, "setTransform")
    /\ \E p \in Sextuples :
        Return("setTransform", this, p,
               setTransform(W, this, p[1], p[2], p[3], p[4], p[5], p[6]), this)

Translate(this) ==
    /\ Allowed(this, "translate")
    /\ \E p \in Pairs :
        Return("translate", this, p, translate(W, this, p[1], p[2]), this)

TranslateX(this) ==
    /\ Allowed(this, "translateX")
    /\ \E tx \in Scalars :
        Return("translateX", this, <<tx>>, translateX(W, this, tx), this)

TranslateY(this) ==
    /\ Allowed(this, "translateY")
    /\ \E ty \in Scalars :
        Return("translateY", this, <<ty>>, translateY(W, this, ty), this)

Transform(this) ==
    /\ Allowed(this, "transform")
    /\ \E p \in Sextuples :
        Return("transform", this, p,
               transform(W, this, p[1], p[2], p[3], p[4], p[5], p[6]), this)

GetInverse(this) ==
    /\ Allowed(this, "getInverse")
    /\ ReturnNew("getInverse", this, <<>>, getInverse(W, this), "i")

Interpolate(this) ==
    /\ Allowed(this, "interpolate")
    /\ \E m2 \in Vars, t \in Fractions :
        ReturnNew("interpolate", this, <<m2, t>>, interpolate(W, this, m2, t), "p")

Clone(this) ==
    /\ Allowed(this, "clone")
    /\ ReturnNew("clone", this, <<>>, clone(W, this), "c")

ApplyToContext(this) ==
    /\ Allowed(this, "applyToContext")
    /\ \E context \in Surfaces :
        Return("applyToContext", this, <<context>>,
               applyToContext(W, this, context), this)

ApplyToPoint(this) ==
    /\ Allowed(this, "applyToPoint")
    /\ \E p \in Coords :
        Return("applyToPoint", this, p, W, applyToPoint(W, this, p[1], p[2]))

ApplyToArray(this) ==
    /\ Allowed(this, "applyToArray")
    /\ \E points \in FlatArrays \cup ObjectArrays :
        Return("applyToArray", this, <<points>>, W, applyToArray(W, this, points))

ApplyToTypedArray(this) ==
    /\ Allowed(this, "applyToTypedArray")
    /\ \E points \in FlatArrays :
        Return("applyToTypedArray", this, <<points>>, W,
               applyToTypedArray(W, this, points))

IsIdentity(this) ==
    /\ Allowed(this, "isIdentity")
    /\ Return("isIdentity", this, <<>>, W, isIdentity(W, this))

IsEqual(this) ==
    /\ Allowed(this, "isEqual")
    /\ \E m \in Vars : Return("isEqual", this, <<m>>, W, isEqual(W, this, m))

\* the names of the program's variables
Names == {"m", "i", "p", "c"}

Next ==
    \E this \in Names :
        \/ FlipX(this)
        \/ FlipY(this)
        \/ Reset(this)
        \/ Rotate(this)
        \/ RotateDeg(this)
        \/ Scale(this)
        \/ ScaleX(this)
        \/ ScaleY(this)
        \/ Skew(this)
        \/ SkewX(this)
        \/ SkewY(this)
        \/ SetTransform(this)
        \/ Translate(this)
        \/ TranslateX(this)
        \/ TranslateY(this)
        \/ Transform(this)
        \/ GetInverse(this)
        \/ Interpolate(this)
        \/ Clone(this)
        \/ ApplyToContext(this)
        \/ ApplyToPoint(this)
        \/ ApplyToArray(this)
        \/ ApplyToTypedArray(this)
        \/ IsIdentity(this)
        \/ IsEqual(this)

Spec == Init /\ [][Next]_vars

(***************************************************************************)
(* A second program, for the laws of getInverse and interpolate: m and m2  *)
(* are set by setTransform before the run, and the calls are               *)
(*   i = m.getInverse(); m.transform(i.a, i.b, i.c, i.d, i.e, i.f);        *)
(*   m.isIdentity()                                                        *)
(* and                                                                     *)
(*   p = m.interpolate(m2, t); p.isEqual(m); p.isEqual(m2)                 *)
(***************************************************************************)
\* var m = new Matrix(s1), m2 = new Matrix(); m.setTransform(..);
\* m2.setTransform(..)
InitLaws ==
    \E p \in Sextuples, q \in Sextuples :
        LET w0 == [mats |-> [v \in {"m", "m2"} |->
                               Matrix(NoSurface, IF v = "m" THEN "s1" ELSE NoArg).obj],
                   surf |-> Matrix(NoSurface, "s1").surf]
            w1 == setTransform(w0, "m", p[1], p[2], p[3], p[4], p[5], p[6])
            w2 == setTransform(w1, "m2", q[1], q[2], q[3], q[4], q[5], q[6])
        IN  /\ mats = w2.mats
            /\ surf = w2.surf
            /\ log = <<>>

\* this.transform(m2.a, m2.b, m2.c, m2.d, m2.e, m2.f)
TransformBy(this, m2) ==
    /\ Allowed(this, "transform")
    /\ m2 \in Vars
    /\ Return("transform", this,
           <<mats[m2].a, mats[m2].b, mats[m2].c, mats[m2].d, mats[m2].e, mats[m2].f>>,
           transform(W, this, mats[m2].a, mats[m2].b, mats[m2].c, mats[m2].d,
                     mats[m2].e, mats[m2].f),
           this)

NextLaws ==
    \/ GetInverse("m")
    \/ TransformBy("m", "i")
    \/ IsIdentity("m")
    \/ Interpolate("m")
    \/ IsEqual("p")

SpecLaws == InitLaws /\ [][NextLaws]_vars
(***************************************************************************)
(* The claims.  They are stated on the log: the k-th call was made in the  *)
(* world log[k].w and left the world After(k).                             *)
(***************************************************************************)
After(k) == IF k < Len(log) THEN log[k + 1].w ELSE W

Coefs(o) == <<o.a, o.b, o.c, o.d, o.e, o.f>>

IdentityCoefs == <<Num(1), Num(0), Num(0), Num(1), Num(0), Num(0)>>

Mutators ==
    {"transform", "setTransform", "reset", "rotate", "rotateDeg", "scale",
     "scaleX", "scaleY", "skew", "skewX", "skewY", "translate", "translateX",
     "translateY", "flipX", "flipY"}

\* the receiver of the k-th call before and after it
Before(k) == log[k].w.mats[log[k].this]
Receiver(k) == After(k).mats[log[k].this]

\* C1: construction with a surface pushes (1,0,0,1,0,0) to it, and after
\* every mutating call on a matrix that has a surface, the six values last
\* passed to the surface's setTransform are the matrix's coefficients
\* a, b, c, d, e, f, in that order.
C1_SurfaceFollowsMatrix ==
    /\ log = <<>> =>
           /\ mats["m"].context = "s1"
           /\ surf["s1"] = [t |-> IdentityCoefs, n |-> 1]
    /\ \A k \in DOMAIN log :
           log[k].op \in Mutators /\ Before(k).context \in Surfaces =>
               After(k).surf[Receiver(k).context].t = Coefs(Receiver(k))

\* two mutating calls on m, the surface now holding other values than
\* the identity
C1_Witness ==
    /\ Len(log) = 2
    /\ \A k \in {1, 2} : log[k].op \in Mutators /\ log[k].this = "m"
    /\ surf["s1"].n = 3
    /\ surf["s1"].t # IdentityCoefs
    /\ surf["s1"].t[2] # surf["s1"].t[3]

\* C2: transform(a2, b2, c2, d2, e2, f2) on coefficients a1..f1 leaves
\* a = a1*a2 + c1*b2, b = b1*a2 + d1*b2, c = a1*c2 + c1*d2,
\* d = b1*c2 + d1*d2, e = a1*e2 + c1*f2 + e1, f = b1*e2 + d1*f2 + f1, every
\* right-hand side on the values held before the call.
C2_TransformUsesOldValues ==
    \A k \in DOMAIN log :
        log[k].op = "transform" =>
            LET o == Before(k)
                p == log[k].args
            IN  Coefs(Receiver(k)) =
                    << FAdd(FMul(o.a, p[1]), FMul(o.c, p[2])),
                       FAdd(FMul(o.b, p[1]), FMul(o.d, p[2])),
                       FAdd(FMul(o.a, p[3]), FMul(o.c, p[4])),
                       FAdd(FMul(o.b, p[3]), FMul(o.d, p[4])),
                       FAdd(FAdd(FMul(o.a, p[5]), FMul(o.c, p[6])), o.e),
                       FAdd(FAdd(FMul(o.b, p[5]), FMul(o.d, p[6])), o.f) >>

\* a transform on a matrix that is not the identity, where d computed from
\* the new b would differ
C2_Witness ==
    /\ Len(log) = 2
    /\ log[1].op = "setTransform"
    /\ log[2].op = "transform"
    /\ log[2].this = "m"
    /\ mats["m"].d # FAdd(FMul(mats["m"].b, log[2].args[3]),
                          FMul(log[2].w.mats["m"].d, log[2].args[4]))

\* the run  m.rotate(PI / 2); m.translate(10, 0); m.applyToPoint(1, 0)
RotateTranslateApply ==
    /\ Len(log) = 3
    /\ \A k \in 1..3 : log[k].this = "m"
    /\ log[1].op = "rotate" /\ log[1].args = <<PiHalf>>
    /\ log[2].op = "translate" /\ log[2].args = <<Num(10), Num(0)>>
    /\ log[3].op = "applyToPoint" /\ log[3].args = <<Num(1), Num(0)>>

\* C3 as stated: after rotate(PI / 2) and translate(10, 0) on a fresh
\* matrix, applyToPoint(1, 0) returns (10, 1) within epsilon.
C3_AsStated ==
    RotateTranslateApply =>
        /\ _isEqual(log[3].ret.x, Num(10))
        /\ _isEqual(log[3].ret.y, Num(1))

\* C3: after rotate(PI / 2) and translate(10, 0) on a fresh matrix,
\* applyToPoint(1, 0) returns (0, 11) within epsilon: the translation is
\* made in the rotated frame.
C3_TranslateInRotatedFrame ==
    RotateTranslateApply =>
        /\ _isEqual(log[3].ret.x, Num(0))
        /\ _isEqual(log[3].ret.y, Num(11))

\* the run has been made; x is not 0 itself, for cos(PI / 2) is not
C3_Witness ==
    /\ RotateTranslateApply
    /\ log[3].ret.y = Num(11)
    /\ log[3].ret.x # Num(0)

\* the calls that return a new instance, kept in the variable log[k].ret
Makers == {"getInverse", "interpolate", "clone"}

\* C6: getInverse and interpolate on a matrix with a surface return an
\* instance without one, and a mutating call on the returned instance
\* neither pushes to any surface nor changes the matrix it came from.
C6_ResultHasNoSurface ==
    /\ \A k \in DOMAIN log :
           (log[k].op \in {"getInverse", "interpolate"}
            /\ Before(k).context \in Surfaces)
           => After(k).mats[log[k].ret].context = Null
    /\ \A k \in DOMAIN log :
           log[k].op \in Mutators /\ log[k].this \in {"i", "p"} =>
               /\ After(k).surf = log[k].w.surf
               /\ After(k).mats["m"] = log[k].w.mats["m"]

\* i = m.getInverse() and then a call on i that changed i
C6_Witness ==
    /\ Len(log) = 2
    /\ log[1].op = "getInverse"
    /\ log[1].this = "m"
    /\ mats["m"].context = "s1"
    /\ log[2].op \in Mutators
    /\ log[2].this = "i"
    /\ mats["i"] # log[2].w.mats["i"]
    /\ surf["s1"].n = 1

\* C7: clone returns an instance with the receiver's six coefficients and
\* without a surface, and a mutating call on the clone changes neither
\* the original nor any surface.
C7_CloneIsDetached ==
    /\ \A k \in DOMAIN log :
           log[k].op = "clone" =>
               /\ Coefs(After(k).mats[log[k].ret]) = Coefs(Before(k))
               /\ After(k).mats[log[k].ret].context = Null
    /\ \A k \in DOMAIN log :
           log[k].op \in Mutators /\ log[k].this = "c" =>
               /\ After(k).surf = log[k].w.surf
               /\ After(k).mats["m"] = log[k].w.mats["m"]

\* c = m.clone() and then a call on c that changed c
C7_Witness ==
    /\ Len(log) = 2
    /\ log[1].op = "clone"
    /\ log[1].this = "m"
    /\ log[2].op \in Mutators
    /\ log[2].this = "c"
    /\ Coefs(mats["c"]) # Coefs(mats["m"])
    /\ surf["s1"].n = 1

\* C8: applyToArray returns a sequence in the representation of its input
\* and of its length: for a flat sequence of x, y pairs elements 2i, 2i+1
\* are applyToPoint of input elements 2i, 2i+1; for a sequence of point
\* records element i is applyToPoint of input record i; an empty input
\* gives an empty sequence.
C8_ApplyToArrayElementwise ==
    \A k \in DOMAIN log :
        log[k].op = "applyToArray" =>
            LET points == log[k].args[1]
                r == log[k].ret
                w == log[k].w
                this == log[k].this
            IN  /\ points = <<>> => r = <<>>
                /\ points \in FlatArrays /\ Len(points) % 2 = 0 =>
                       /\ Len(r) = Len(points)
                       /\ \A i \in 0..(Len(points) \div 2 - 1) :
                              /\ r[2 * i + 1] =
                                     applyToPoint(w, this, points[2 * i + 1],
                                                  points[2 * i + 2]).x
                              /\ r[2 * i + 2] =
                                     applyToPoint(w, this, points[2 * i + 1],
                                                  points[2 * i + 2]).y
                /\ points \in ObjectArrays =>
                       /\ Len(r) = Len(points)
                       /\ \A i \in 1..Len(points) :
                              r[i] = applyToPoint(w, this, points[i].x, points[i].y)

\* two pairs through a matrix that moves them
C8_Witness ==
    /\ Len(log) = 3
    /\ log[3].op = "applyToArray"
    /\ log[3].args[1] \in FlatArrays
    /\ Len(log[3].args[1]) = 4
    /\ Len(log[3].ret) = 4
    /\ \A i \in 1..4 : log[3].ret[i] # log[3].args[1][i]

\* the k-th call finds its receiver as the constructor or reset left it
FreshOrReset(k) ==
    \/ /\ log[k].this = "m"
       /\ \A j \in 1..(k - 1) : ~(log[j].op \in Mutators /\ log[j].this = "m")
    \/ /\ k > 1
       /\ log[k - 1].op = "reset"
       /\ log[k - 1].this = log[k].this

\* C9: a matrix fresh from the constructor or from reset has coefficients
\* (1,0,0,1,0,0), answers isIdentity with true and maps (x, y) to (x, y);
\* reset leaves (1,0,0,1,0,0) whatever came before, a second reset changes
\* nothing.
C9_IdentityState ==
    /\ \A k \in DOMAIN log :
           FreshOrReset(k) =>
               /\ Coefs(Before(k)) = IdentityCoefs
               /\ log[k].op = "isIdentity" => log[k].ret = TRUE
               /\ log[k].op = "applyToPoint" =>
                      log[k].ret = Point(log[k].args[1], log[k].args[2])
    /\ \A k \in DOMAIN log :
           log[k].op = "reset" =>
               /\ Coefs(Receiver(k)) = IdentityCoefs
               /\ FreshOrReset(k) => Receiver(k) = Before(k)

\* a point mapped by a matrix that was translated and then reset
C9_Witness ==
    /\ Len(log) = 3
    /\ log[1].op = "translate"
    /\ log[2].op = "reset"
    /\ log[3].op = "applyToPoint"
    /\ \A k \in 1..3 : log[k].this = "m"
    /\ Coefs(log[2].w.mats["m"]) # IdentityCoefs
    /\ log[3].ret = Point(Num(5), Tenth)

ReadOnly == Reads \cup {"getInverse", "interpolate", "applyToContext"}

\* C10: applyToPoint, applyToArray, applyToTypedArray, getInverse,
\* interpolate, isIdentity, isEqual and applyToContext leave the receiver's
\* coefficients and surface reference as they were and push to no surface,
\* but that applyToContext(s) writes the receiver's coefficients to s and
\* to s only.
C10_ReadOnlyFrame ==
    \A k \in DOMAIN log :
        log[k].op \in ReadOnly =>
            /\ \/ log[k].op \in Makers /\ log[k].ret = log[k].this
               \/ Receiver(k) = Before(k)
            /\ IF log[k].op = "applyToContext"
               THEN /\ After(k).surf[log[k].args[1]] =
                          [t |-> Coefs(Before(k)),
                           n |-> log[k].w.surf[log[k].args[1]].n + 1]
                    /\ \A s \in Surfaces \ {log[k].args[1]} :
                          After(k).surf[s] = log[k].w.surf[s]
               ELSE After(k).surf = log[k].w.surf

\* m.applyToContext(s2) on a matrix that is not the identity and has s1
C10_Witness ==
    /\ Len(log) = 2
    /\ log[1].op \in Mutators
    /\ log[2].op = "applyToContext"
    /\ log[2].this = "m"
    /\ log[2].args = <<"s2">>
    /\ surf["s2"].t = Coefs(mats["m"])
    /\ surf["s2"].t # IdentityCoefs
    /\ surf["s1"].n = 2

(***************************************************************************)
(* The laws of getInverse and interpolate, on the second program.          *)
(***************************************************************************)
\* the Number x is an integer of magnitude below 2^16
SmallInteger(x) ==
    /\ x.k = "fin"
    /\ x.m # <<>> => x.e >= 0 /\ x.e + BBitLen(x.m) <= 16

\* the Number x is 2^n or -(2^n) for an integer n
PowerOfTwo(x) == x.k = "fin" /\ x.m = <<1>>

\* a * d - b * c as getInverse computes it
Determinant(o) == FSub(FMul(o.a, o.d), FMul(o.b, o.c))

\* the run  i = m.getInverse(); m.transform(i.a, .., i.f); m.isIdentity()
InverseApplied ==
    /\ Len(log) = 3
    /\ \A k \in 1..3 : log[k].this = "m"
    /\ log[1].op = "getInverse"
    /\ log[2].op = "transform" /\ log[2].args = Coefs(log[2].w.mats["i"])
    /\ log[3].op = "isIdentity"

\* the second half of C4: the coefficients of getInverse's result
InverseFormulas ==
    \A k \in DOMAIN log :
        log[k].op = "getInverse" =>
            LET o == Before(k)
                dt == Determinant(o)
                i == After(k).mats[log[k].ret]
            IN  /\ log[k].ret # log[k].this
                /\ Coefs(i) =
                       << FDiv(o.d, dt),
                          FDiv(FNeg(o.b), dt),
                          FDiv(FNeg(o.c), dt),
                          FDiv(o.a, dt),
                          FDiv(FSub(FMul(o.c, o.f), FMul(o.d, o.e)), dt),
                          FDiv(FNeg(FSub(FMul(o.a, o.f), FMul(o.b, o.e))), dt) >>

SumIsExact(x, y) ==
    \E v \in {ExactAdd(x, y)} :
        /\ Round(v).k = "fin"
        /\ v.k = "exact" /\ v.m # <<>> =>
               /\ BBitLen(v.m) - BTrailingZeros(v.m) <= PrecBits
               /\ v.e + BTrailingZeros(v.m) >= MinExp

\* the run  p = m.interpolate(m2, t); p.isEqual(other)
InterpolatedThenCompared(t, other) ==
    /\ Len(log) = 2
    /\ log[1].op = "interpolate"
    /\ log[1].args[2] = t
    /\ log[2].op = "isEqual"
    /\ log[2].this = log[1].ret
    /\ log[2].args = <<other>>

\* the last part of C5: the coefficients of interpolate's result
InterpolateFormulas ==
    \A k \in DOMAIN log :
        log[k].op = "interpolate" =>
            \A c \in Fields :
                After(k).mats[log[k].ret][c] =
                    FAdd(Before(k)[c],
                         FMul(FSub(log[k].w.mats[log[k].args[1]][c], Before(k)[c]),
                              log[k].args[2]))

====
